---- MODULE Spec2Model ----
(***************************************************************************)
(* Model of the entry point src/main.ts (function bootstrap) of the        *)
(* NestJS/Fastify application: the one-time startup sequence of a process, *)
(* the role-dependent choices it makes (worker vs. main) and the request   *)
(* path it installs (onRequest hook, global ValidationPipe).               *)
(***************************************************************************)
EXTENDS Integers, Sequences, FiniteSets, Bags, TLC

VARIABLES
  environment,  \* the process environment: what getAppConfig()/ConfigService read
  pc,           \* index in BootstrapSteps of the next statement of bootstrap()
  status,       \* "running" | "failed" (bootstrap rejected) | "done" (returned app)
  isWorker,     \* local const isWorker (main.ts:44)
  env,          \* local const env (main.ts:101), "unset" before it is read
  app,          \* the NestFastifyApplication object being configured
  sentry,       \* arguments of the Sentry.init calls
  lookups,      \* the keys passed to configService.getOrThrow, in call order
  trace,        \* the startup steps executed by this run, in order
  inflight,     \* bag of the requests received and not yet answered
  lastReq,      \* <<r>>: the request answered by the step just taken; else <<>>
  prev          \* <<>> or <<r>>: summary of the previous run that returned

vars == <<environment, pc, status, isWorker, env, app, sentry, lookups, trace,
          inflight, lastReq, prev>>

(***************************************************************************)
(* Bounds and input sets                                                   *)
(***************************************************************************)
\* at most this many required configuration keys are absent from a run
MaxMissing == 1

\* at most this many requests are in flight at a time
MaxInFlight == 2

Environments == {"local", "development", "production", "staging", "test"}

ConfigKeys == {"auth.authSecret", "app.corsOrigin", "app.nodeEnv",
               "sentry.dsn", "app.port", "app.workerPort"}

\* values of the two port settings of the environment
ConfigValue(key) ==
  CASE key = "app.port" -> "PORT"
    [] key = "app.workerPort" -> "WORKER_PORT"
    [] key = "auth.authSecret" -> "SECRET"
    [] key = "app.corsOrigin" -> "ORIGIN"
    [] key = "sentry.dsn" -> "DSN"
    [] OTHER -> "?"

EnvironmentSpace ==
  { e \in [isWorker : BOOLEAN, nodeEnv : Environments,
           missing : SUBSET ConfigKeys] :
      Cardinality(e.missing) <= MaxMissing }

\* the ValidationError list the payloads range over: one field the target
\* type declares, one it does not
DeclaredFields == {"name"}
Fields == DeclaredFields \cup {"extra"}
FieldValues == {"valid", "invalid"}
\* an undeclared field has no validator: its value is immaterial
Payloads == { p \in UNION { [S -> FieldValues] : S \in SUBSET Fields } :
                \A f \in DOMAIN p : f \notin DeclaredFields => p[f] = "valid" }
Credentials == {"valid", "invalid"}

(***************************************************************************)
(* Strings are sequences of characters, so that startsWith is computed.    *)
(***************************************************************************)
ApiPrefix == <<"/", "a", "p", "i">>
BULL_BOARD_PATH == <<"/", "q", "u", "e", "u", "e", "s">>
DashboardPrefix == ApiPrefix \o BULL_BOARD_PATH

StartsWith(s, p) == Len(p) <= Len(s) /\ SubSeq(s, 1, Len(p)) = p

Urls == { DashboardPrefix,
          DashboardPrefix \o <<"/", "1">>,
          DashboardPrefix \o <<"x">>,
          ApiPrefix \o <<"/", "v", "1", "/", "u">>,
          BULL_BOARD_PATH }

(***************************************************************************)
(* bootstrap(): the statements in source order                             *)
(***************************************************************************)
BootstrapSteps_CorsFirst ==
  << "getAppConfig", "NestFactory.create", "enableCors", "setGlobalPrefix",
     "useGlobalPipes", "enableVersioning", "register(fastifyCookie)",
     "use(helmet)", "useGlobalInterceptors(ClassSerializer)", "getEnv",
     "setupSwagger", "Sentry.init", "useGlobalInterceptors(Sentry)",
     "setupGracefulShutdown", "useWebSocketAdapter", "addHook(onRequest)",
     "listen", "getUrl", "console.info" >>

BootstrapSteps ==
  << "getAppConfig", "NestFactory.create", "register(fastifyCookie)",
     "setGlobalPrefix", "useGlobalPipes", "enableVersioning", "enableCors",
     "use(helmet)", "useGlobalInterceptors(ClassSerializer)", "getEnv",
     "setupSwagger", "Sentry.init", "useGlobalInterceptors(Sentry)",
     "setupGracefulShutdown", "useWebSocketAdapter", "addHook(onRequest)",
     "listen", "getUrl", "console.info" >>

At(step) == status = "running" /\ pc <= Len(BootstrapSteps) /\ BootstrapSteps[pc] = step

\* const envToLogger
envToLogger(e) ==
  CASE e = "local" -> "console"
    [] e = "development" -> "console"
    [] e = "production" -> "true"
    [] e = "staging" -> "true"
    [] e = "test" -> "false"

\* isWorker ? AppModule.worker() : AppModule.main()
ModuleFor_AlwaysMain(w) == "main"

ModuleFor(w) == IF w THEN "worker" ELSE "main"

\* ConfigService.getOrThrow: throws when the key has no value
Throws_Never(key) == FALSE

Throws(key) == key \in environment.missing

\* index in ks of the first lookup that throws, 0 when none does
FirstThrow(ks) ==
  IF \E i \in DOMAIN ks : Throws(ks[i])
  THEN CHOOSE i \in DOMAIN ks : Throws(ks[i]) /\ \A j \in 1..(i - 1) : ~Throws(ks[j])
  ELSE 0

\* the statement evaluates the lookups ks and one of them throws: the promise
\* of bootstrap() rejects, nothing of the statement's call is executed
Rejects(ks) ==
  /\ FirstThrow(ks) # 0
  /\ status' = "failed"
  /\ lookups' = lookups \o SubSeq(ks, 1, FirstThrow(ks))
  /\ UNCHANGED <<environment, pc, isWorker, env, app, sentry, trace, inflight,
                 lastReq, prev>>

\* the statement's lookups succeed and its call is made
Proceeds(ks, stepsDone) ==
  /\ FirstThrow(ks) = 0
  /\ lookups' = lookups \o ks
  /\ trace' = trace \o stepsDone
  /\ pc' = pc + 1
  /\ status' = IF pc = Len(BootstrapSteps) THEN "done" ELSE "running"
  /\ lastReq' = <<>>
  /\ UNCHANGED <<environment, inflight, prev>>

(***************************************************************************)
(* Values built by the statements of bootstrap()                           *)
(***************************************************************************)
UNPROCESSABLE_ENTITY == 422

ValidationPipeOptions_Lenient ==
  [ transform |-> TRUE, whitelist |-> TRUE, forbidNonWhitelisted |-> FALSE,
    errorHttpStatusCode |-> UNPROCESSABLE_ENTITY,
    exceptionFactory |-> "UnprocessableEntityException" ]

\* new ValidationPipe({...})
ValidationPipeOptions ==
  [ transform |-> TRUE, whitelist |-> TRUE, forbidNonWhitelisted |-> TRUE,
    errorHttpStatusCode |-> UNPROCESSABLE_ENTITY,
    exceptionFactory |-> "UnprocessableEntityException" ]

CorsMethods == {"GET", "PATCH", "POST", "PUT", "DELETE", "OPTIONS", "HEAD"}
CorsAllowedHeaders == {"Content-Type", "Authorization", "X-Requested-With", "Accept"}

\* if (env !== 'local')
ShouldSetupGracefulShutdown_NotLocalNorTest(e) == e \notin {"local", "test"}

ShouldSetupGracefulShutdown_ProductionOnly(e) == e = "production"

ShouldSetupGracefulShutdown(e) == e # "local"

\* if (!isWorker)
InstallsWebSocketAdapter_Always(w) == TRUE

InstallsWebSocketAdapter(w) == ~w

\* port: isWorker ? getOrThrow('app.workerPort') : getOrThrow('app.port')
ListenPortKey_Swapped(w) == IF w THEN "app.port" ELSE "app.workerPort"

ListenPortKey(w) == IF w THEN "app.workerPort" ELSE "app.port"

ListenHost == "0.0.0.0"

\* the application object NestFactory.create returns, before any registration
NewApp(module, logger, trustProxy) ==
  [ module |-> module,
    adapter |-> [logger |-> logger, trustProxy |-> trustProxy],
    bufferLogs |-> TRUE,
    plugins |-> <<>>,
    globalPrefix |-> "",
    pipes |-> <<>>,
    versioning |-> "none",
    cors |-> <<>>,
    middleware |-> <<>>,
    interceptors |-> <<>>,
    swagger |-> FALSE,
    gracefulShutdown |-> FALSE,
    wsAdapter |-> "default",
    hooks |-> <<>>,
    listenCalls |-> <<>> ]

NoApp == NewApp("none", "false", FALSE)

(***************************************************************************)
(* The statements of bootstrap(), one action each                          *)
(***************************************************************************)
\* const appConfig = getAppConfig(); const isWorker = appConfig.isWorker;
GetAppConfig ==
  /\ At("getAppConfig")
  /\ isWorker' = environment.isWorker
  /\ Proceeds(<<>>, <<"getAppConfig">>)
  /\ UNCHANGED <<env, app, sentry>>

\* const app = await NestFactory.create(...), with the settings
\* appConfig.appLogging and appConfig.isHttps read here
CreateApp ==
  /\ At("NestFactory.create")
  /\ \E appLogging \in BOOLEAN, isHttps \in BOOLEAN :
       app' = NewApp(ModuleFor(isWorker),
                     IF appLogging THEN envToLogger(environment.nodeEnv) ELSE "false",
                     isHttps)
  /\ Proceeds(<<>>, <<"NestFactory.create">>)
  /\ UNCHANGED <<isWorker, env, sentry>>

\* await app.register(fastifyCookie, { secret: getOrThrow('auth.authSecret') })
RegisterCookie ==
  /\ At("register(fastifyCookie)")
  /\ LET ks == <<"auth.authSecret">> IN
       \/ Rejects(ks)
       \/ /\ Proceeds(ks, <<"register(fastifyCookie)">>)
          /\ app' = [app EXCEPT !.plugins =
                       Append(@, [plugin |-> "fastifyCookie",
                                  secret |-> ConfigValue("auth.authSecret")])]
          /\ UNCHANGED <<isWorker, env, sentry>>

\* app.setGlobalPrefix('api')
SetGlobalPrefix ==
  /\ At("setGlobalPrefix")
  /\ app' = [app EXCEPT !.globalPrefix = "api"]
  /\ Proceeds(<<>>, <<"setGlobalPrefix">>)
  /\ UNCHANGED <<isWorker, env, sentry>>

\* app.useGlobalPipes(new ValidationPipe({...}))
UseGlobalPipes ==
  /\ At("useGlobalPipes")
  /\ app' = [app EXCEPT !.pipes = Append(@, ValidationPipeOptions)]
  /\ Proceeds(<<>>, <<"useGlobalPipes">>)
  /\ UNCHANGED <<isWorker, env, sentry>>

\* app.enableVersioning({ type: VersioningType.URI })
EnableVersioning ==
  /\ At("enableVersioning")
  /\ app' = [app EXCEPT !.versioning = "URI"]
  /\ Proceeds(<<>>, <<"enableVersioning">>)
  /\ UNCHANGED <<isWorker, env, sentry>>

\* app.enableCors({ origin: getOrThrow('app.corsOrigin'), ... })
EnableCors ==
  /\ At("enableCors")
  /\ LET ks == <<"app.corsOrigin">> IN
       \/ Rejects(ks)
       \/ /\ Proceeds(ks, <<"enableCors">>)
          /\ app' = [app EXCEPT !.cors =
                       Append(@, [origin |-> ConfigValue("app.corsOrigin"),
                                  methods |-> CorsMethods,
                                  allowedHeaders |-> CorsAllowedHeaders,
                                  credentials |-> TRUE])]
          /\ UNCHANGED <<isWorker, env, sentry>>

\* app.use(helmet())
UseHelmet ==
  /\ At("use(helmet)")
  /\ app' = [app EXCEPT !.middleware = Append(@, "helmet")]
  /\ Proceeds(<<>>, <<"use(helmet)">>)
  /\ UNCHANGED <<isWorker, env, sentry>>

\* app.useGlobalInterceptors(new ClassSerializerInterceptor(reflector))
UseClassSerializer ==
  /\ At("useGlobalInterceptors(ClassSerializer)")
  /\ app' = [app EXCEPT !.interceptors = Append(@, "ClassSerializerInterceptor")]
  /\ Proceeds(<<>>, <<"useGlobalInterceptors(ClassSerializer)">>)
  /\ UNCHANGED <<isWorker, env, sentry>>

\* const env = configService.getOrThrow('app.nodeEnv')
GetEnv ==
  /\ At("getEnv")
  /\ LET ks == <<"app.nodeEnv">> IN
       \/ Rejects(ks)
       \/ /\ Proceeds(ks, <<"getEnv">>)
          /\ env' = environment.nodeEnv
          /\ UNCHANGED <<isWorker, app, sentry>>

\* setupSwagger(app)
SetupSwagger ==
  /\ At("setupSwagger")
  /\ app' = [app EXCEPT !.swagger = TRUE]
  /\ Proceeds(<<>>, <<"setupSwagger">>)
  /\ UNCHANGED <<isWorker, env, sentry>>

\* Sentry.init({ dsn: getOrThrow('sentry.dsn'), tracesSampleRate: 1.0,
\*               environment: getOrThrow('app.nodeEnv') })
SentryInit ==
  /\ At("Sentry.init")
  /\ LET ks == <<"sentry.dsn", "app.nodeEnv">> IN
       \/ Rejects(ks)
       \/ /\ Proceeds(ks, <<"Sentry.init">>)
          /\ sentry' = Append(sentry, [dsn |-> ConfigValue("sentry.dsn"),
                                       environment |-> environment.nodeEnv])
          /\ UNCHANGED <<isWorker, env, app>>

\* app.useGlobalInterceptors(new SentryInterceptor())
UseSentryInterceptor ==
  /\ At("useGlobalInterceptors(Sentry)")
  /\ app' = [app EXCEPT !.interceptors = Append(@, "SentryInterceptor")]
  /\ Proceeds(<<>>, <<"useGlobalInterceptors(Sentry)">>)
  /\ UNCHANGED <<isWorker, env, sentry>>

\* if (env !== 'local') { setupGracefulShutdown({ app }); }
SetupGracefulShutdown ==
  /\ At("setupGracefulShutdown")
  /\ IF ShouldSetupGracefulShutdown(env)
       THEN /\ app' = [app EXCEPT !.gracefulShutdown = TRUE]
            /\ Proceeds(<<>>, <<"setupGracefulShutdown">>)
       ELSE /\ app' = app
            /\ Proceeds(<<>>, <<>>)
  /\ UNCHANGED <<isWorker, env, sentry>>

\* if (!isWorker) { app.useWebSocketAdapter(new RedisIoAdapter(app)); }
UseWebSocketAdapter ==
  /\ At("useWebSocketAdapter")
  /\ IF InstallsWebSocketAdapter(isWorker)
       THEN /\ app' = [app EXCEPT !.wsAdapter = "RedisIoAdapter"]
            /\ Proceeds(<<>>, <<"useWebSocketAdapter">>)
       ELSE /\ app' = app
            /\ Proceeds(<<>>, <<>>)
  /\ UNCHANGED <<isWorker, env, sentry>>

\* app.getHttpAdapter().getInstance().addHook('onRequest', async (req, reply) => ...)
AddOnRequestHook ==
  /\ At("addHook(onRequest)")
  /\ app' = [app EXCEPT !.hooks = Append(@, "onRequest:bullBoardAuth")]
  /\ Proceeds(<<>>, <<"addHook(onRequest)">>)
  /\ UNCHANGED <<isWorker, env, sentry>>

\* await app.listen({ port: ..., host: '0.0.0.0' })
Listen ==
  /\ At("listen")
  /\ LET ks == <<ListenPortKey(isWorker)>> IN
       \/ Rejects(ks)
       \/ /\ Proceeds(ks, <<"listen">>)
          /\ app' = [app EXCEPT !.listenCalls =
                       Append(@, [port |-> ConfigValue(ListenPortKey(isWorker)),
                                  host |-> ListenHost])]
          /\ UNCHANGED <<isWorker, env, sentry>>

\* const httpUrl = await app.getUrl(): the call is made and bootstrap waits
\* for its promise, back in the event loop
GetUrl ==
  /\ At("getUrl")
  /\ Proceeds(<<>>, <<"getUrl">>)
  /\ UNCHANGED <<isWorker, env, app, sentry>>

\* bootstrap resumes: console.info(...); return app;
ConsoleInfo ==
  /\ At("console.info")
  /\ Proceeds(<<>>, <<"console.info">>)
  /\ UNCHANGED <<isWorker, env, app, sentry>>

(***************************************************************************)
(* Serving a request once the application listens                          *)
(***************************************************************************)
\* if (req.url.startsWith(`/api${BULL_BOARD_PATH}`))
HookApplies_ExactPath(url) == url = DashboardPrefix

HookApplies(url) == StartsWith(url, DashboardPrefix)

\* bullBoardAuthMiddleware(req, reply): TRUE when the request passes the check,
\* FALSE when the middleware answers it with a rejection
bullBoardAuthMiddleware(creds) == creds = "valid"

\* where a request that passed the hooks is routed
Route(prefix, url) ==
  IF url = DashboardPrefix \/ StartsWith(url, DashboardPrefix \o <<"/">>)
    THEN "dashboard"
  ELSE IF prefix = "api" /\ StartsWith(url, ApiPrefix \o <<"/">>)
    THEN "api"
  ELSE "none"

\* the fields of the payload the pipe reports: those failing their validators
\* and, under whitelist + forbidNonWhitelisted, those the type does not declare
ValidationErrors(opts, payload) ==
  { f \in DOMAIN payload : f \in DeclaredFields /\ payload[f] = "invalid" }
  \cup (IF opts.whitelist /\ opts.forbidNonWhitelisted
          THEN { f \in DOMAIN payload : f \notin DeclaredFields }
          ELSE {})

\* exceptionFactory: (errors) => new UnprocessableEntityException(errors)
ExceptionFactory(opts, errors) ==
  [ status |-> IF opts.exceptionFactory = "UnprocessableEntityException"
                 THEN UNPROCESSABLE_ENTITY
                 ELSE opts.errorHttpStatusCode,
    errors |-> errors ]

\* ValidationPipe.transform under the options given at construction
PipeTransform(opts, payload) ==
  LET errors == ValidationErrors(opts, payload) IN
    IF errors # {}
      THEN [thrown |-> TRUE, exception |-> ExceptionFactory(opts, errors)]
      ELSE [thrown |-> FALSE, exception |-> [status |-> 0, errors |-> {}]]

NoPayload == [f \in {} |-> "valid"]

NoException == [thrown |-> FALSE, exception |-> [status |-> 0, errors |-> {}]]

Answer(r, payload, outcome, exception) ==
  [ url |-> r.url, creds |-> r.creds, payload |-> payload,
    authChecked |-> r.authChecked, outcome |-> outcome,
    httpStatus |-> exception.status, errors |-> exception.errors ]

Waiting(r) == BagIn(r, inflight)

Leaves(r) == inflight (-) SetToBag({r})

\* a request arrives and the onRequest hook starts: under the dashboard
\* prefix it calls bullBoardAuthMiddleware and waits for it, otherwise the
\* hook resolves at once and the request goes on to routing
HookStart(url, creds) ==
  /\ Len(app.listenCalls) > 0
  /\ BagCardinality(inflight) < MaxInFlight
  /\ LET hooked == \E i \in DOMAIN app.hooks : app.hooks[i] = "onRequest:bullBoardAuth"
         checks == hooked /\ HookApplies(url)
     IN inflight' = inflight (+) SetToBag({
          [ url |-> url, creds |-> creds,
            stage |-> IF checks THEN "middleware" ELSE "routing",
            authChecked |-> checks ] })
  /\ lastReq' = <<>>
  /\ UNCHANGED <<environment, pc, status, isWorker, env, app, sentry, lookups,
                 trace, prev>>

\* bullBoardAuthMiddleware settles and the hook resumes after its await: the
\* request was answered by the middleware, or goes on to routing
MiddlewareEnd(r) ==
  /\ Waiting(r)
  /\ r.stage = "middleware"
  /\ IF bullBoardAuthMiddleware(r.creds)
       THEN /\ inflight' = Leaves(r) (+) SetToBag({[r EXCEPT !.stage = "routing"]})
            /\ lastReq' = <<>>
       ELSE /\ inflight' = Leaves(r)
            /\ lastReq' = << Answer(r, NoPayload, "rejected", NoException.exception) >>
  /\ UNCHANGED <<environment, pc, status, isWorker, env, app, sentry, lookups,
                 trace, prev>>

\* a request that passed the hooks is routed; a request to an API route has
\* its body parsed and run through the global pipe before the handler
Dispatch(r, payload) ==
  /\ Waiting(r)
  /\ r.stage = "routing"
  /\ LET route == Route(app.globalPrefix, r.url)
         piped == IF app.pipes # <<>> THEN PipeTransform(app.pipes[1], payload)
                  ELSE NoException
     IN lastReq' =
          IF route = "dashboard"
            THEN << Answer(r, NoPayload, "dashboard", NoException.exception) >>
          ELSE IF route = "none"
            THEN << Answer(r, NoPayload, "notFound", NoException.exception) >>
          ELSE IF piped.thrown
            THEN << Answer(r, payload, "validationError", piped.exception) >>
          ELSE << Answer(r, payload, "handler", NoException.exception) >>
  /\ inflight' = Leaves(r)
  /\ UNCHANGED <<environment, pc, status, isWorker, env, app, sentry, lookups,
                 trace, prev>>

RequestArrives == \E url \in Urls, creds \in Credentials : HookStart(url, creds)

MiddlewareSettles == \E r \in BagToSet(inflight) : MiddlewareEnd(r)

RequestDispatched == \E r \in BagToSet(inflight), payload \in Payloads :
                       Dispatch(r, payload)

(***************************************************************************)
(* void bootstrap(): a process is started with some environment            *)
(***************************************************************************)
Fresh(e) ==
  /\ environment = e
  /\ pc = 1
  /\ status = "running"
  /\ isWorker = FALSE
  /\ env = "unset"
  /\ app = NoApp
  /\ sentry = <<>>
  /\ lookups = <<>>
  /\ trace = <<>>
  /\ inflight = EmptyBag
  /\ lastReq = <<>>

Init == /\ \E e \in EnvironmentSpace : Fresh(e)
        /\ prev = <<>>

\* the process has ended its startup (returned or rejected) and a new process
\* is started; the run that returned is remembered for comparison
Launch ==
  /\ status \in {"done", "failed"}
  /\ \E e \in EnvironmentSpace :
       /\ environment' = e
       /\ pc' = 1
       /\ status' = "running"
       /\ isWorker' = FALSE
       /\ env' = "unset"
       /\ app' = NoApp
       /\ sentry' = <<>>
       /\ lookups' = <<>>
       /\ trace' = <<>>
       /\ inflight' = EmptyBag
       /\ lastReq' = <<>>
  /\ prev' = IF status = "done"
               THEN << [ isWorker |-> isWorker, nodeEnv |-> environment.nodeEnv,
                         trace |-> trace ] >>
               ELSE prev

Next ==
  \/ GetAppConfig
  \/ CreateApp
  \/ RegisterCookie
  \/ SetGlobalPrefix
  \/ UseGlobalPipes
  \/ EnableVersioning
  \/ EnableCors
  \/ UseHelmet
  \/ UseClassSerializer
  \/ GetEnv
  \/ SetupSwagger
  \/ SentryInit
  \/ UseSentryInterceptor
  \/ SetupGracefulShutdown
  \/ UseWebSocketAdapter
  \/ AddOnRequestHook
  \/ Listen
  \/ GetUrl
  \/ ConsoleInfo
  \/ Launch

\* successive process starts: the startup sequence of each run
Spec == Init /\ [][Next]_vars

\* one process that starts up and then serves requests
ServeNext ==
  \/ GetAppConfig
  \/ CreateApp
  \/ RegisterCookie
  \/ SetGlobalPrefix
  \/ UseGlobalPipes
  \/ EnableVersioning
  \/ EnableCors
  \/ UseHelmet
  \/ UseClassSerializer
  \/ GetEnv
  \/ SetupSwagger
  \/ SentryInit
  \/ UseSentryInterceptor
  \/ SetupGracefulShutdown
  \/ UseWebSocketAdapter
  \/ AddOnRequestHook
  \/ Listen
  \/ GetUrl
  \/ ConsoleInfo
  \/ RequestArrives
  \/ MiddlewareSettles
  \/ RequestDispatched

ServeSpec == Init /\ [][ServeNext]_vars

(***************************************************************************)
(* Properties                                                              *)
(***************************************************************************)
StepIndex(step) == CHOOSE i \in DOMAIN BootstrapSteps : BootstrapSteps[i] = step

\* the statement `step` of this run has completed
Completed(step) == pc > StepIndex(step)

Count(seq, x) == Cardinality({ i \in DOMAIN seq : seq[i] = x })

Listened == app.listenCalls # <<>>

RolePort(w) == IF w THEN ConfigValue("app.workerPort") ELSE ConfigValue("app.port")

\* C1: a run that reaches listen has called listen exactly once, on host
\* 0.0.0.0 and on the port configured for its role (app.workerPort when the
\* worker flag is true, app.port when it is false), never on the other one.
C1_ListenBindsRolePort ==
  /\ Len(app.listenCalls) <= 1
  /\ Count(trace, "listen") = Len(app.listenCalls)
  /\ Completed("listen") => Len(app.listenCalls) = 1
  /\ \A i \in DOMAIN app.listenCalls :
       /\ app.listenCalls[i].host = "0.0.0.0"
       /\ app.listenCalls[i].port = RolePort(environment.isWorker)
       /\ app.listenCalls[i].port # RolePort(~environment.isWorker)

C1_Witness ==
  /\ status = "done"
  /\ environment.isWorker
  /\ app.listenCalls = << [port |-> "WORKER_PORT", host |-> "0.0.0.0"] >>

IsUnderDashboard(url) ==
  /\ Len(url) >= Len(DashboardPrefix)
  /\ \A i \in DOMAIN DashboardPrefix : url[i] = DashboardPrefix[i]

\* C2: every request whose URL starts with /api + BULL_BOARD_PATH goes through
\* the bull-board authentication check in the onRequest hook before it is
\* routed, and is rejected without reaching the dashboard when its credentials
\* are invalid, whatever other requests are in flight; a request whose URL
\* does not start with that prefix never invokes the check.
C2_DashboardGated ==
  /\ \A r \in BagToSet(inflight) :
       /\ IsUnderDashboard(r.url) <=> r.authChecked
       /\ (r.stage = "routing" /\ IsUnderDashboard(r.url)) => r.creds = "valid"
  /\ \A i \in DOMAIN lastReq :
       /\ IsUnderDashboard(lastReq[i].url) <=> lastReq[i].authChecked
       /\ (IsUnderDashboard(lastReq[i].url) /\ lastReq[i].creds = "invalid")
            => lastReq[i].outcome = "rejected"
       /\ lastReq[i].outcome = "dashboard" => lastReq[i].creds = "valid"

C2_Witness ==
  /\ environment.isWorker
  /\ lastReq # <<>>
  /\ lastReq[1].url = DashboardPrefix \o <<"/", "1">>
  /\ lastReq[1].creds = "invalid"
  /\ lastReq[1].authChecked
  /\ lastReq[1].outcome = "rejected"

\* C3 as stated: graceful shutdown is set up exactly when the environment mode
\* is neither local nor test.
C3_NotLocalNorTest ==
  Completed("setupGracefulShutdown") =>
    (app.gracefulShutdown <=> environment.nodeEnv \notin {"local", "test"})

\* C3 (amended): graceful shutdown is set up during bootstrap exactly when the
\* environment mode is not local: it is set up for development, staging,
\* production and test, and not for local.
C3_NotLocal ==
  /\ Completed("setupGracefulShutdown") =>
       /\ app.gracefulShutdown <=> environment.nodeEnv # "local"
       /\ Count(trace, "setupGracefulShutdown") =
            (IF environment.nodeEnv = "local" THEN 0 ELSE 1)
  /\ ~Completed("setupGracefulShutdown") => ~app.gracefulShutdown

C3_Witness ==
  /\ Completed("setupGracefulShutdown")
  /\ environment.nodeEnv = "test"
  /\ app.gracefulShutdown

ReachedPipe(r) == r.outcome \in {"validationError", "handler"}

OffendingFields(payload) ==
  { f \in DOMAIN payload : f \notin DeclaredFields \/ payload[f] = "invalid" }

\* C4: a request that reaches the global validation pipe with a payload holding
\* an undeclared field or a field failing validation is answered with status
\* 422 carrying the validation errors and does not reach the route handler; a
\* payload of declared, valid fields only is passed to the handler.
C4_Validation422 ==
  \A i \in DOMAIN lastReq :
    ReachedPipe(lastReq[i]) =>
      IF OffendingFields(lastReq[i].payload) # {}
        THEN /\ lastReq[i].outcome = "validationError"
             /\ lastReq[i].httpStatus = 422
             /\ lastReq[i].errors = OffendingFields(lastReq[i].payload)
        ELSE /\ lastReq[i].outcome = "handler"
             /\ lastReq[i].errors = {}

C4_Witness ==
  /\ lastReq # <<>>
  /\ DOMAIN lastReq[1].payload = {"name", "extra"}
  /\ lastReq[1].payload["name"] = "valid"
  /\ lastReq[1].outcome = "validationError"
  /\ lastReq[1].httpStatus = 422
  /\ lastReq[1].errors = {"extra"}

Concerns ==
  << "register(fastifyCookie)", "useGlobalPipes", "enableVersioning",
     "enableCors", "use(helmet)", "useGlobalInterceptors(ClassSerializer)",
     "Sentry.init", "useGlobalInterceptors(Sentry)", "setupGracefulShutdown",
     "useWebSocketAdapter", "addHook(onRequest)" >>

IsConcern(s) == \E i \in DOMAIN Concerns : Concerns[i] = s

\* the concerns registered before listen was called, in registration order
RegisteredBeforeListen ==
  LET n == CHOOSE i \in DOMAIN trace : trace[i] = "listen"
  IN SelectSeq(SubSeq(trace, 1, n - 1), IsConcern)

\* the concerns this run's role and mode call for
Applies(c) ==
  /\ c = "setupGracefulShutdown" => environment.nodeEnv # "local"
  /\ c = "useWebSocketAdapter" => ~environment.isWorker

\* C5 as stated: every listed concern is registered exactly once, in the listed
\* order, before listen, in every run.
C5_AllConcernsEveryRun ==
  Listened => RegisteredBeforeListen = Concerns

\* C5 (amended): in every run that reaches listen, the concerns registered
\* before listen are, each exactly once and in the listed order, the listed
\* concerns without the graceful-shutdown hook when the mode is local and
\* without the WebSocket Redis adapter when the process is a worker.
C5_ConcernsInOrder ==
  Listened =>
    /\ RegisteredBeforeListen = SelectSeq(Concerns, Applies)
    /\ SelectSeq(trace, IsConcern) = RegisteredBeforeListen

C5_Witness ==
  /\ status = "done"
  /\ environment.nodeEnv = "local"
  /\ environment.isWorker
  /\ Len(RegisteredBeforeListen) = Len(Concerns) - 2

\* C6 as stated: two runs that returned with the same worker flag executed the
\* same sequence of startup steps.
C6_SameFlagSameSteps ==
  \A i \in DOMAIN prev :
    (status = "done" /\ prev[i].isWorker = environment.isWorker)
      => prev[i].trace = trace

\* C6 (amended): the startup sequence branches on the worker flag and on
\* whether the environment mode is local: two runs that returned with the same
\* worker flag and both local or both not local executed the same sequence of
\* startup steps, whatever the logging and HTTPS flags.
C6_SameFlagAndLocalitySameSteps ==
  \A i \in DOMAIN prev :
    ( /\ status = "done"
      /\ prev[i].isWorker = environment.isWorker
      /\ (prev[i].nodeEnv = "local") <=> (environment.nodeEnv = "local") )
      => prev[i].trace = trace

C6_Witness ==
  /\ status = "done"
  /\ prev # <<>>
  /\ prev[1].isWorker = environment.isWorker
  /\ prev[1].nodeEnv = "test"
  /\ environment.nodeEnv = "production"
  /\ ~app.adapter.trustProxy
  /\ prev[1].trace = trace

\* C8: the Redis WebSocket adapter is installed iff the process is not a
\* worker: a main run that reaches listen installed it exactly once before
\* listening, a worker run never installs it.
C8_RedisAdapterIffMain ==
  /\ environment.isWorker =>
       /\ app.wsAdapter = "default"
       /\ Count(trace, "useWebSocketAdapter") = 0
  /\ (Listened /\ ~environment.isWorker) =>
       /\ app.wsAdapter = "RedisIoAdapter"
       /\ Count(trace, "useWebSocketAdapter") = 1
  /\ Count(trace, "useWebSocketAdapter") <= 1

C8_Witness ==
  /\ Listened
  /\ ~environment.isWorker
  /\ app.wsAdapter = "RedisIoAdapter"

\* C9: when a getOrThrow lookup finds its key missing, bootstrap stops at that
\* statement: the lookup is the last one made (no retry), the run is failed,
\* only the statements before it have executed and listen was never called.
C9_MissingConfigAborts ==
  \A i \in DOMAIN lookups :
    lookups[i] \in environment.missing =>
      /\ i = Len(lookups)
      /\ status = "failed"
      /\ \A j \in DOMAIN trace :
           \E k \in 1..(pc - 1) : BootstrapSteps[k] = trace[j]
      /\ Len(trace) <= pc - 1
      /\ ~Listened
      /\ Count(trace, "listen") = 0

C9_Witness ==
  /\ status = "failed"
  /\ lookups # <<>>
  /\ lookups[Len(lookups)] = "sentry.dsn"
  /\ BootstrapSteps[pc] = "Sentry.init"
  /\ sentry = <<>>

\* C10: every role-dependent choice of a run agrees with the worker flag read
\* at its start: the module variant, the WebSocket adapter and the port passed
\* to listen belong to one role.
C10_RoleConsistent ==
  /\ Completed("getAppConfig") => isWorker = environment.isWorker
  /\ app.module # "none" => (app.module = "worker" <=> environment.isWorker)
  /\ app.wsAdapter = "RedisIoAdapter" => app.module = "main"
  /\ \A i \in DOMAIN app.listenCalls :
       /\ app.listenCalls[i].port = "WORKER_PORT" <=> app.module = "worker"
       /\ app.listenCalls[i].port = "PORT" <=> app.module = "main"
       /\ app.wsAdapter = "RedisIoAdapter" <=> app.module = "main"

C10_Witness ==
  /\ Listened
  /\ app.module = "worker"
  /\ app.listenCalls[1].port = "WORKER_PORT"
  /\ app.wsAdapter = "default"

====
